---- MODULE Spec2Model ----
(***************************************************************************)
(* Model of selfdrive/manager/manager.py: manager_init, manager_thread,    *)
(* manager_cleanup, main and the __main__ block.  One step of the model is *)
(* one statement group of the program; the environment (Config Store       *)
(* writers, SIGTERM, process exits) interleaves between the steps.         *)
(***************************************************************************)
EXTENDS Integers, Sequences, FiniteSets, TLC

VARIABLES
  pc,            \* position of the program (see the actions below)
  idx,           \* loop index of the for-loop the program is in, 0 outside
  env,           \* fixed inputs of the run (see EnvValues)
  handler,       \* TRUE once signal.signal(SIGTERM, ...) has run
  pending,       \* exception in flight: "none", "Exception", "SystemExit"
  started,       \* manager_thread local
  started_prev,  \* manager_thread local
  shutdown,      \* manager_thread local
  ignore,        \* manager_thread local (not_run)
  flags,         \* Config Store: DoUninstall, DoShutdown, DoReboot
  reason,        \* Config Store: LastManagerExitReason ("" when absent)
  obs,           \* observed state of every managed process
  prepared,      \* processes whose prepare() has returned
  exitStatus,    \* exit status of the program, meaningful when pc = "done"
  \* ---- history of the run, written only ----
  tickLog,       \* calls made in the current tick, in order
  ticks,         \* ticks begun
  entered,       \* manager_thread has been called
  loopExit,      \* how manager_thread ended: "", "break", "Exception", "SystemExit"
  cleanups,      \* invocations of manager_cleanup
  stopLog,       \* stop() calls made by manager_cleanup, in order
  termRead,      \* get_bool results of main's final flag read, in order
  hostOps,       \* HARDWARE operations performed, in order
  sigPc,         \* position at each SIGTERM delivery, in order
  sigTicks,      \* ticks begun when the first SIGTERM hit the try block, -1 before
  flagWrites,    \* external Config Store writes so far
  touched,       \* a flag was written externally since the loop last began reading
  deaths,        \* unexpected process deaths so far
  prevAtPoll,    \* started_prev when the current tick began
  regFailed,     \* register() returned no dongle id
  prepFailed,    \* processes whose prepare() raised
  uiStop,        \* stop of 'ui' by the __main__ handler: "", "stopped", "raised"
  lastMsg,       \* managerState.processes of the message sent in the current tick, << >> before
  hist,          \* one entry per ensure_running call of the loop (see CallRecord)
  preCall,       \* the ensure_running call made before the loop, << >> before it
  crashed,       \* processes that died during the loop since the last ensure_running call
  lastAct,        \* the ensure_running call of the current tick: the actions it issued, the deaths before it
  deathSnap,     \* per process, its death during the loop not yet followed by a new tick after the message reporting on it (see ProcDies, Send)
  params,        \* Config Store: the keys of ParamKeys that hold a value, with their values
  paramsAfterClear\* history: params when the clears of lines 42-46 had run

vars == <<pc, idx, env, handler, pending, started, started_prev, shutdown, ignore,
          flags, reason, obs, prepared, exitStatus, tickLog, ticks, entered,
          loopExit, cleanups, stopLog, termRead, hostOps, sigPc, sigTicks,
          flagWrites, touched, deaths, prevAtPoll, regFailed, prepFailed,
          uiStop,
          lastMsg,
          hist,
          preCall,
          crashed,
          lastAct,
          deathSnap,
          params,
          paramsAfterClear>>

prog == <<pc, idx, handler, pending, started, started_prev, shutdown, ignore,
          reason, prepared, exitStatus, tickLog, ticks, entered, loopExit,
          cleanups, stopLog, termRead, hostOps, prevAtPoll, regFailed,
          prepFailed,
          uiStop,
          lastMsg,
          hist,
          preCall,
          lastAct,
          params,
          paramsAfterClear>>

\* ---- bounds of the model ----
MaxTicks == 2
MaxLoopTicks == 4
MaxSignals == 2
MaxFlagWrites == 2
MaxDeaths == 1

\* ---- the process registry (process_config.managed_processes) ----
Registry ==
  << [name |-> "ui",        cond |-> "ALWAYS"],
     [name |-> "controlsd", cond |-> "ONROAD_ONLY"] >>

N == Len(Registry)

Names == { Registry[i].name : i \in 1..N }

\* the order in which manager_thread reads the Shutdown Intent flags
LoopFlags == << "DoUninstall", "DoShutdown", "DoReboot" >>

\* the order of main's if/elif chain
TermFlags == << "DoUninstall", "DoReboot", "DoShutdown" >>

FlagNames == { "DoUninstall", "DoShutdown", "DoReboot" }

HostOp(f) ==
  CASE f = "DoUninstall" -> "uninstall"
    [] f = "DoReboot"    -> "reboot"
    [] f = "DoShutdown"  -> "shutdown"

Ev(op, arg) == [op |-> op, arg |-> arg]

BoolStr(b) == IF b THEN "True" ELSE "False"

\* ---- positions ----
InitPcs == { "boot", "defaults", "init", "prepare", "init_end" }
TryPcs == { "thread_start", "poll", "edge", "ensure", "send", "flags", "brk" }
CleanupPcs == { "cleanup1", "cleanup2", "cleanup_end" }
TermPcs == { "term", "ret" }

\* ---- the process wrapper and the Reconciler ----
\* desired state of registry entry i
Desired(i, st, not_run) ==
  /\ Registry[i].name \notin not_run
  /\ (Registry[i].cond = "ALWAYS" \/ st)

\* p.start(): a process that is not running is started
StartProc(o) == IF o = "RUNNING" THEN o ELSE "RUNNING"

\* p.stop(block): the signal is sent; a blocking stop waits for the death
StopProc(o, block) ==
  IF o = "STOPPED" THEN "STOPPED"
  ELSE IF block THEN "STOPPED" ELSE "STOPPING"

\* ensure_running(procs, started, not_run): the observed states afterwards
EnsureRunning(o, st, not_run) ==
  [ n \in Names |->
      LET i == CHOOSE j \in 1..N : Registry[j].name = n IN
      IF Desired(i, st, not_run) THEN StartProc(o[n]) ELSE StopProc(o[n], FALSE) ]

\* the actions ensure_running(procs, st, not_run) issues on observed states o:
\* a start for a wanted process that is not running, a stop signal for an
\* unwanted one that runs
Acts(o, st, not_run) ==
  { [op |-> "start", arg |-> Registry[i].name] :
      i \in { j \in 1..N : Desired(j, st, not_run) /\ o[Registry[j].name] # "RUNNING" } }
  \cup
  { [op |-> "stop", arg |-> Registry[i].name] :
      i \in { j \in 1..N : ~Desired(j, st, not_run) /\ o[Registry[j].name] = "RUNNING" } }

\* what one ensure_running call did: the actions issued, and the processes
\* that had died since the call before it
ActRecord(o, st, not_run, dead) == [acts |-> Acts(o, st, not_run), crashed |-> dead]

\* the value of lastAct outside the ticks that called ensure_running
NoAct == [acts |-> {}, crashed |-> {}]

\* the entry of deathSnap for a process with no death on record
NoDeath == [afterEnsure |-> FALSE, wanted |-> FALSE, seen |-> "none"]

\* ---- the Config Store ----
\* the keys of the store the model follows: three keys of the default table
\* and the two keys of lines 180-181
ParamKeys == { "GsmMetered", "LanguageSetting", "LastUpdateTime",
               "RecordFrontLock", "RecordFront" }

\* a store that holds no key
Fresh == [ k \in {} |-> "" ]

\* params.put(k, v)
Put(p, k, v) == [ x \in DOMAIN p \cup {k} |-> IF x = k THEN v ELSE p[x] ]

\* params.get_bool(k)
GetBool(p, k) == k \in DOMAIN p /\ p[k] = "1"

\* params.clear_all(category), for a category that holds the keys ks
ClearAll(p, ks) == [ x \in DOMAIN p \ ks |-> p[x] ]

\* lines 50-178: default_params, in table order (three of its rows)
DefaultParams(e) ==
  << << "GsmMetered", IF e.FrogsGoMoo THEN "0" ELSE "1" >>,
     << "LanguageSetting", "main_en" >> >>
  \o (IF ~e.PC THEN << << "LastUpdateTime", "now" >> >> ELSE << >>)

\* variant of SetUnset that tests `if not params.get(k)`: an empty value is
\* taken for an absent one
RECURSIVE SetUnset_Falsy(_, _, _)
SetUnset_Falsy(p, table, i) ==
  IF i > Len(table) THEN p
  ELSE SetUnset_Falsy(IF table[i][1] \in DOMAIN p /\ p[table[i][1]] # ""
                        THEN p ELSE Put(p, table[i][1], table[i][2]),
                      table, i + 1)

\* lines 184-186 from row i on: `if params.get(k) is None: params.put(k, v)`
RECURSIVE SetUnset(_, _, _)
SetUnset(p, table, i) ==
  IF i > Len(table) THEN p
  ELSE SetUnset(IF table[i][1] \in DOMAIN p THEN p ELSE Put(p, table[i][1], table[i][2]),
                table, i + 1)

\* ---- the environment ----
\* os.environ (PREPAREONLY, NOBOARD, BLOCK), the persisted DongleId param (""
\* when absent), the build (PC, FrogsGoMoo: the branch is the development
\* branch) and Cleared, the keys of ParamKeys in the categories cleared at
\* lines 42-46
EnvValues ==
  [ PREPAREONLY : BOOLEAN, NOBOARD : {FALSE}, BLOCK : { {} }, DongleId : {"dongle"},
    PC : {FALSE}, FrogsGoMoo : {FALSE}, Cleared : { {} } ]

\* the state when main is called, with the inputs drawn from E and the
\* persisted Config Store from P
InitWith(E, P) ==
  /\ pc = "boot"
  /\ idx = 0
  /\ env \in E
  /\ handler = FALSE
  /\ pending = "none"
  /\ started = FALSE
  /\ started_prev = FALSE
  /\ shutdown = FALSE
  /\ ignore = {}
  /\ flags = [ f \in FlagNames |-> FALSE ]
  /\ reason = ""
  /\ obs = [ n \in Names |-> "STOPPED" ]
  /\ prepared = {}
  /\ exitStatus = 0
  /\ tickLog = << >>
  /\ ticks = 0
  /\ entered = FALSE
  /\ loopExit = ""
  /\ cleanups = 0
  /\ stopLog = << >>
  /\ termRead = << >>
  /\ hostOps = << >>
  /\ sigPc = << >>
  /\ sigTicks = -1
  /\ flagWrites = 0
  /\ touched = FALSE
  /\ deaths = 0
  /\ prevAtPoll = FALSE
  /\ regFailed = FALSE
  /\ prepFailed = {}
  /\ uiStop = ""
  /\ lastMsg = << >>
  /\ hist = << >>
  /\ preCall = << >>
  /\ crashed = {}
  /\ lastAct = NoAct
  /\ deathSnap = [ n \in Names |-> NoDeath ]
  /\ params \in P
  /\ paramsAfterClear = Fresh

Init == InitWith(EnvValues, {Fresh})

\* ---- raising ----
\* `raise Exception` outside main's try block leaves main with the exception
\* and reaches the `except Exception` clause of the __main__ block.
RaiseInInit ==
  /\ pc' = "fatal"
  /\ pending' = "Exception"

\* variant of SystemExitTarget for a handler that ends the program at once
SystemExitTarget_Immediate(p) == "done"

\* sys.exit(1) run by the SIGTERM handler: where SystemExit takes the program
\* from position p.  Inside try/except of main the finally clause runs next;
\* anywhere else SystemExit leaves main and ends the program with status 1.
SystemExitTarget(p) ==
  IF p \in TryPcs \cup {"except"} THEN "finally" ELSE "done"

\* ---- manager_init ----
\* lines 30-46: the clears of manager_init (CLEAR_ON_MANAGER_START,
\* CLEAR_ON_ONROAD_TRANSITION, CLEAR_ON_OFFROAD_TRANSITION, DEVELOPMENT_ONLY on
\* a release branch)
Boot ==
  /\ pc = "boot"
  /\ params' = ClearAll(params, env.Cleared)
  /\ paramsAfterClear' = params'
  /\ pc' = "defaults"
  /\ UNCHANGED <<idx, env, handler, pending, started, started_prev, shutdown,
                 ignore, flags, reason, obs, prepared, exitStatus, tickLog,
                 ticks, entered, loopExit, cleanups, stopLog, termRead,
                 hostOps, sigPc, sigTicks, flagWrites, touched, deaths,
                 prevAtPoll, regFailed, prepFailed, uiStop, lastMsg, hist,
                 preCall, crashed, lastAct, deathSnap>>

\* lines 48-186: RecordFrontLock forces RecordFront, then the default pass
Defaults ==
  /\ pc = "defaults"
  /\ LET locked == IF GetBool(params, "RecordFrontLock")
                     THEN Put(params, "RecordFront", "1") ELSE params IN
       params' = SetUnset(locked, DefaultParams(env), 1)
  /\ pc' = "init"
  /\ UNCHANGED <<idx, env, handler, pending, started, started_prev, shutdown,
                 ignore, flags, reason, obs, prepared, exitStatus, tickLog,
                 ticks, entered, loopExit, cleanups, stopLog, termRead,
                 hostOps, sigPc, sigTicks, flagWrites, touched, deaths,
                 prevAtPoll, regFailed, prepFailed, uiStop, lastMsg, hist,
                 preCall, crashed, lastAct, deathSnap, paramsAfterClear>>

\* variant of ManagerInit that goes on without a dongle id
ManagerInit_NoRaise ==
  /\ pc = "init"
  /\ \E reg_res \in BOOLEAN : regFailed' = ~reg_res
  /\ pc' = "prepare"
  /\ idx' = 1
  /\ UNCHANGED <<env, handler, pending, started, started_prev, shutdown,
                 ignore, flags, reason, obs, prepared, exitStatus, tickLog,
                 ticks, entered, loopExit, cleanups, stopLog, termRead,
                 hostOps, sigPc, sigTicks, flagWrites, touched, deaths,
                 prevAtPoll, prepFailed, uiStop, lastMsg, hist, preCall, crashed, lastAct, deathSnap, params, paramsAfterClear>>

\* lines 188-261 up to the registration result
ManagerInit ==
  /\ pc = "init"
  /\ \E reg_res \in BOOLEAN :
       IF reg_res
         THEN /\ pc' = "prepare"
              /\ idx' = 1
              /\ pending' = pending
              /\ regFailed' = FALSE
         ELSE /\ RaiseInInit
              /\ idx' = idx
              /\ regFailed' = TRUE
  /\ UNCHANGED <<env, handler, started, started_prev, shutdown, ignore, flags,
                 reason, obs, prepared, exitStatus, tickLog, ticks, entered,
                 loopExit, cleanups, stopLog, termRead, hostOps, sigPc,
                 sigTicks, flagWrites, touched, deaths,
                 prevAtPoll, prepFailed, uiStop, lastMsg, hist, preCall, crashed, lastAct, deathSnap, params, paramsAfterClear>>

\* one iteration of `for p in managed_processes.values(): p.prepare()`
Prepare ==
  /\ pc = "prepare"
  /\ \E ok \in BOOLEAN :
       IF ok
         THEN /\ prepared' = prepared \cup { Registry[idx].name }
              /\ prepFailed' = prepFailed
              /\ pending' = pending
              /\ IF idx < N
                   THEN /\ idx' = idx + 1
                        /\ pc' = pc
                   ELSE /\ idx' = 0
                        /\ pc' = "init_end"
         ELSE /\ RaiseInInit
              /\ idx' = 0
              /\ prepared' = prepared
              /\ prepFailed' = prepFailed \cup { Registry[idx].name }
  /\ UNCHANGED <<env, handler, started, started_prev, shutdown, ignore, flags,
                 reason, obs, exitStatus, tickLog, ticks, entered, loopExit,
                 cleanups, stopLog, termRead, hostOps, sigPc, sigTicks,
                 flagWrites, touched, deaths,
                 prevAtPoll, regFailed, uiStop, lastMsg, hist, preCall, crashed, lastAct, deathSnap, params, paramsAfterClear>>

\* set_model, return to main, the PREPAREONLY test and the prebuilt file
InitEnd ==
  /\ pc = "init_end"
  /\ IF env.PREPAREONLY
       THEN /\ pc' = "done"
            /\ exitStatus' = 0
       ELSE /\ pc' = "sig_install"
            /\ exitStatus' = exitStatus
  /\ UNCHANGED <<idx, env, handler, pending, started, started_prev, shutdown,
                 ignore, flags, reason, obs, prepared, tickLog, ticks, entered,
                 loopExit, cleanups, stopLog, termRead, hostOps, sigPc,
                 sigTicks, flagWrites, touched, deaths,
                 prevAtPoll, regFailed, prepFailed, uiStop, lastMsg, hist, preCall, crashed, lastAct, deathSnap, params, paramsAfterClear>>

\* signal.signal(signal.SIGTERM, lambda signum, frame: sys.exit(1))
SigInstall ==
  /\ pc = "sig_install"
  /\ handler' = TRUE
  /\ pc' = "try_enter"
  /\ UNCHANGED <<idx, env, pending, started, started_prev, shutdown, ignore,
                 flags, reason, obs, prepared, exitStatus, tickLog, ticks,
                 entered, loopExit, cleanups, stopLog, termRead, hostOps,
                 sigPc, sigTicks, flagWrites, touched, deaths,
                 prevAtPoll, regFailed, prepFailed, uiStop, lastMsg, hist, preCall, crashed, lastAct, deathSnap, params, paramsAfterClear>>

\* `try:` and the call of manager_thread
TryEnter ==
  /\ pc = "try_enter"
  /\ pc' = "thread_start"
  /\ entered' = TRUE
  /\ UNCHANGED <<idx, env, handler, pending, started, started_prev, shutdown,
                 ignore, flags, reason, obs, prepared, exitStatus, tickLog,
                 ticks, loopExit, cleanups, stopLog, termRead, hostOps, sigPc,
                 sigTicks, flagWrites, touched, deaths,
                 prevAtPoll, regFailed, prepFailed, uiStop, lastMsg, hist, preCall, crashed, lastAct, deathSnap, params, paramsAfterClear>>

\* the processes ensure_running(procs, st, not_run) wants running
Wanted(st, not_run) == { Registry[i].name : i \in { j \in 1..N : Desired(j, st, not_run) } }

\* what one ensure_running call was given
CallRecord(polled, arg, not_run) ==
  [polled |-> polled, arg |-> arg, not_run |-> not_run,
   want |-> Wanted(arg, not_run)]

\* ---- manager_thread ----
\* the ignore list of lines 289-294
IgnoreList(e) ==
  (IF e.DongleId \in {"", "UnregisteredDevice"}
     THEN {"manage_athenad", "uploader"} ELSE {})
  \cup (IF e.NOBOARD THEN {"pandad"} ELSE {})
  \cup e.BLOCK

\* variant of ThreadStart with started_prev initialised to True
ThreadStart_PrevTrue ==
  /\ pc = "thread_start"
  /\ ignore' = IgnoreList(env)
  /\ obs' = EnsureRunning(obs, FALSE, ignore')
  /\ tickLog' = << Ev("write_onroad_params", "False"), Ev("ensure_running", "False") >>
  /\ preCall' = << CallRecord(FALSE, FALSE, ignore') >>
  /\ lastAct' = ActRecord(obs, FALSE, ignore', crashed)
  /\ started_prev' = TRUE
  /\ pc' = "poll"
  /\ UNCHANGED <<idx, env, handler, pending, started, shutdown, flags, reason,
                 prepared, exitStatus, ticks, entered, loopExit, cleanups,
                 stopLog, termRead, hostOps, sigPc, sigTicks, flagWrites,
                 touched, deaths,
                 prevAtPoll, regFailed, prepFailed, uiStop, lastMsg, hist, crashed, deathSnap, params, paramsAfterClear>>

\* lines 283-302: everything before the loop
ThreadStart ==
  /\ pc = "thread_start"
  /\ ignore' = IgnoreList(env)
  /\ obs' = EnsureRunning(obs, FALSE, ignore')
  /\ tickLog' = << Ev("write_onroad_params", "False"), Ev("ensure_running", "False") >>
  /\ preCall' = << CallRecord(FALSE, FALSE, ignore') >>
  /\ lastAct' = ActRecord(obs, FALSE, ignore', crashed)
  /\ started_prev' = FALSE
  /\ pc' = "poll"
  /\ UNCHANGED <<idx, env, handler, pending, started, shutdown, flags, reason,
                 prepared, exitStatus, ticks, entered, loopExit, cleanups,
                 stopLog, termRead, hostOps, sigPc, sigTicks, flagWrites,
                 touched, deaths,
                 prevAtPoll, regFailed, prepFailed, uiStop, lastMsg, hist, crashed, deathSnap, params, paramsAfterClear>>

\* sm.update(); started = sm['deviceState'].started, in a run of at most
\* `bound` ticks
PollUpTo(bound) ==
  /\ pc = "poll"
  /\ ticks < bound
  /\ \E s \in BOOLEAN : started' = s
  /\ ticks' = ticks + 1
  /\ tickLog' = << >>
  /\ lastMsg' = << >>
  /\ lastAct' = NoAct
  /\ deathSnap' = [ n \in Names |->
       IF deathSnap[n].seen \in {"alive", "dead"} THEN NoDeath ELSE deathSnap[n] ]
  /\ prevAtPoll' = started_prev
  /\ pc' = "edge"
  /\ UNCHANGED <<idx, env, handler, pending, started_prev, shutdown, ignore,
                 flags, reason, obs, prepared, exitStatus, entered, loopExit,
                 cleanups, stopLog, termRead, hostOps, sigPc, sigTicks,
                 flagWrites, touched, deaths,
                 regFailed, prepFailed, uiStop, hist, preCall, crashed, params, paramsAfterClear>>

Poll == PollUpTo(MaxTicks)

\* the same step in the runs of SpecLoop
PollLoop == PollUpTo(MaxLoopTicks)

\* level-triggered variant of EdgeClears
EdgeClears_Level(st, prev) ==
  IF st THEN << Ev("clear_all", "CLEAR_ON_ONROAD_TRANSITION") >>
  ELSE << Ev("clear_all", "CLEAR_ON_OFFROAD_TRANSITION") >>

\* lines 309-312: the category clear of this tick
EdgeClears(st, prev) ==
  IF st /\ ~prev THEN << Ev("clear_all", "CLEAR_ON_ONROAD_TRANSITION") >>
  ELSE IF ~st /\ prev THEN << Ev("clear_all", "CLEAR_ON_OFFROAD_TRANSITION") >>
  ELSE << >>

\* variant of EdgeWrites that writes on the rising edge only
EdgeWrites_Rising(st, prev) ==
  IF st /\ ~prev THEN << Ev("write_onroad_params", BoolStr(st)) >> ELSE << >>

\* lines 315-316: the safety parameter write of this tick
EdgeWrites(st, prev) ==
  IF st # prev THEN << Ev("write_onroad_params", BoolStr(st)) >> ELSE << >>

\* variant of Edge with ensure_running called before the transition is handled
Edge_AfterEnsure ==
  /\ pc = "edge"
  /\ obs' = EnsureRunning(obs, started, ignore)
  /\ lastAct' = ActRecord(obs, started, ignore, crashed)
  /\ crashed' = {}
  /\ hist' = Append(hist, CallRecord(started, started, ignore))
  /\ tickLog' = Append(tickLog, Ev("ensure_running", BoolStr(started)))
                  \o EdgeClears(started, started_prev)
                  \o EdgeWrites(started, started_prev)
  /\ started_prev' = started
  /\ pc' = "send"
  /\ UNCHANGED <<idx, env, handler, pending, started, shutdown, ignore, flags,
                 reason, prepared, exitStatus, ticks, entered, loopExit,
                 cleanups, stopLog, termRead, hostOps, sigPc, sigTicks,
                 flagWrites, touched, deaths,
                 prevAtPoll, regFailed, prepFailed, uiStop, lastMsg, preCall, deathSnap, params, paramsAfterClear>>

\* lines 309-318
Edge ==
  /\ pc = "edge"
  /\ tickLog' = tickLog \o EdgeClears(started, started_prev)
                        \o EdgeWrites(started, started_prev)
  /\ started_prev' = started
  /\ pc' = "ensure"
  /\ UNCHANGED <<idx, env, handler, pending, started, shutdown, ignore, flags,
                 reason, obs, prepared, exitStatus, ticks, entered, loopExit,
                 cleanups, stopLog, termRead, hostOps, sigPc, sigTicks,
                 flagWrites, touched, deaths,
                 prevAtPoll, regFailed, prepFailed, uiStop, lastMsg, hist, preCall, crashed, lastAct, deathSnap, params, paramsAfterClear>>

\* variant of Ensure that restarts the managed processes in every tick: each
\* one is stopped before the reconciliation
Ensure_Restart ==
  /\ pc = "ensure"
  /\ LET down == [ n \in Names |-> StopProc(obs[n], TRUE) ] IN
       /\ obs' = EnsureRunning(down, started, ignore)
       /\ lastAct' =
            [acts |-> { [op |-> "stop", arg |-> n] : n \in { m \in Names : obs[m] = "RUNNING" } }
                        \cup Acts(down, started, ignore),
             crashed |-> crashed]
  /\ crashed' = {}
  /\ tickLog' = Append(tickLog, Ev("ensure_running", BoolStr(started)))
  /\ hist' = Append(hist, CallRecord(started, started, ignore))
  /\ pc' = "send"
  /\ UNCHANGED <<idx, env, handler, pending, started, started_prev, shutdown,
                 ignore, flags, reason, prepared, exitStatus, ticks, entered,
                 loopExit, cleanups, stopLog, termRead, hostOps, sigPc,
                 sigTicks, flagWrites, touched, deaths,
                 prevAtPoll, regFailed, prepFailed, uiStop, lastMsg, preCall, deathSnap, params, paramsAfterClear>>

\* variant of Ensure that reconciles only in a tick where started changed
Ensure_OnEdge ==
  /\ pc = "ensure"
  /\ IF started # prevAtPoll
       THEN /\ obs' = EnsureRunning(obs, started, ignore)
            /\ lastAct' = ActRecord(obs, started, ignore, crashed)
       ELSE /\ obs' = obs
            /\ lastAct' = [acts |-> {}, crashed |-> crashed]
  /\ crashed' = {}
  /\ tickLog' = Append(tickLog, Ev("ensure_running", BoolStr(started)))
  /\ hist' = Append(hist, CallRecord(started, started, ignore))
  /\ pc' = "send"
  /\ UNCHANGED <<idx, env, handler, pending, started, started_prev, shutdown,
                 ignore, flags, reason, prepared, exitStatus, ticks, entered,
                 loopExit, cleanups, stopLog, termRead, hostOps, sigPc,
                 sigTicks, flagWrites, touched, deaths,
                 prevAtPoll, regFailed, prepFailed, uiStop, lastMsg, preCall, deathSnap, params, paramsAfterClear>>

\* variant of Ensure that leaves out the not_run argument
Ensure_NoIgnore ==
  /\ pc = "ensure"
  /\ obs' = EnsureRunning(obs, started, {})
  /\ tickLog' = Append(tickLog, Ev("ensure_running", BoolStr(started)))
  /\ lastAct' = ActRecord(obs, started, {}, crashed)
  /\ crashed' = {}
  /\ hist' = Append(hist, CallRecord(started, started, {}))
  /\ pc' = "send"
  /\ UNCHANGED <<idx, env, handler, pending, started, started_prev, shutdown,
                 ignore, flags, reason, prepared, exitStatus, ticks, entered,
                 loopExit, cleanups, stopLog, termRead, hostOps, sigPc,
                 sigTicks, flagWrites, touched, deaths,
                 prevAtPoll, regFailed, prepFailed, uiStop, lastMsg, preCall, deathSnap, params, paramsAfterClear>>

\* variant of Ensure that passes the started value of the previous tick
Ensure_Stale ==
  /\ pc = "ensure"
  /\ obs' = EnsureRunning(obs, prevAtPoll, ignore)
  /\ tickLog' = Append(tickLog, Ev("ensure_running", BoolStr(prevAtPoll)))
  /\ lastAct' = ActRecord(obs, prevAtPoll, ignore, crashed)
  /\ crashed' = {}
  /\ hist' = Append(hist, CallRecord(started, prevAtPoll, ignore))
  /\ pc' = "send"
  /\ UNCHANGED <<idx, env, handler, pending, started, started_prev, shutdown,
                 ignore, flags, reason, prepared, exitStatus, ticks, entered,
                 loopExit, cleanups, stopLog, termRead, hostOps, sigPc,
                 sigTicks, flagWrites, touched, deaths,
                 prevAtPoll, regFailed, prepFailed, uiStop, lastMsg, preCall, deathSnap, params, paramsAfterClear>>

\* line 320
Ensure ==
  /\ pc = "ensure"
  /\ obs' = EnsureRunning(obs, started, ignore)
  /\ tickLog' = Append(tickLog, Ev("ensure_running", BoolStr(started)))
  /\ lastAct' = ActRecord(obs, started, ignore, crashed)
  /\ crashed' = {}
  /\ hist' = Append(hist, CallRecord(started, started, ignore))
  /\ pc' = "send"
  /\ UNCHANGED <<idx, env, handler, pending, started, started_prev, shutdown,
                 ignore, flags, reason, prepared, exitStatus, ticks, entered,
                 loopExit, cleanups, stopLog, termRead, hostOps, sigPc,
                 sigTicks, flagWrites, touched, deaths,
                 prevAtPoll, regFailed, prepFailed, uiStop, lastMsg, preCall, deathSnap, params, paramsAfterClear>>

\* p.proc.is_alive(): a process that was sent its signal lives until it exits
IsAlive(o) == o \in {"RUNNING", "STOPPING"}

\* variant of HealthMsg with the filter of the console line (322-323): only
\* the processes that were ever started are listed
HealthMsg_OnlyStarted(o) ==
  SelectSeq([ i \in 1..N |-> [name |-> Registry[i].name, running |-> IsAlive(o[Registry[i].name])] ],
            LAMBDA e : o[e.name] # "STOPPED")

\* line 329: one get_process_state_msg() per process of the registry
HealthMsg(o) ==
  [ i \in 1..N |-> [name |-> Registry[i].name, running |-> IsAlive(o[Registry[i].name])] ]

\* the message msg reports process n as running
Reported(msg, n) == \E i \in DOMAIN msg : msg[i].name = n /\ msg[i].running

\* lines 322-333: the health message, then shutdown = False
Send ==
  /\ pc = "send"
  /\ tickLog' = Append(tickLog, Ev("send", "managerState"))
  /\ lastMsg' = HealthMsg(obs)
  /\ deathSnap' = [ n \in Names |->
       IF deathSnap[n].seen = "pending"
         THEN [deathSnap[n] EXCEPT !.seen =
                 IF Reported(HealthMsg(obs), n) THEN "alive" ELSE "dead"]
         ELSE deathSnap[n] ]
  /\ shutdown' = FALSE
  /\ touched' = FALSE
  /\ idx' = 1
  /\ pc' = "flags"
  /\ UNCHANGED <<env, handler, pending, started, started_prev, ignore, flags,
                 reason, obs, prepared, exitStatus, ticks, entered, loopExit,
                 cleanups, stopLog, termRead, hostOps, sigPc, sigTicks,
                 flagWrites, deaths,
                 prevAtPoll, regFailed, prepFailed, uiStop, hist, preCall, crashed, lastAct, params, paramsAfterClear>>

\* one iteration of `for param in ("DoUninstall", "DoShutdown", "DoReboot")`
ReadFlag ==
  /\ pc = "flags"
  /\ LET param == LoopFlags[idx] IN
       IF flags[param]
         THEN /\ shutdown' = TRUE
              /\ reason' = param
              /\ tickLog' = tickLog \o << Ev("get_bool_true", param), Ev("put_reason", param) >>
         ELSE /\ shutdown' = shutdown
              /\ reason' = reason
              /\ tickLog' = Append(tickLog, Ev("get_bool_false", param))
  /\ IF idx < Len(LoopFlags)
       THEN /\ idx' = idx + 1
            /\ pc' = pc
       ELSE /\ idx' = 0
            /\ pc' = "brk"
  /\ UNCHANGED <<env, handler, pending, started, started_prev, ignore, flags,
                 obs, prepared, exitStatus, ticks, entered, loopExit, cleanups,
                 stopLog, termRead, hostOps, sigPc, sigTicks, flagWrites,
                 touched, deaths,
                 prevAtPoll, regFailed, prepFailed, uiStop, lastMsg, hist, preCall, crashed, lastAct, deathSnap, params, paramsAfterClear>>

\* variant of Brk that never leaves the loop
Brk_NoBreak ==
  /\ pc = "brk"
  /\ pc' = "poll"
  /\ UNCHANGED <<idx, env, handler, pending, started, started_prev, shutdown,
                 ignore, flags, reason, obs, prepared, exitStatus, tickLog,
                 ticks, entered, loopExit, cleanups, stopLog, termRead,
                 hostOps, sigPc, sigTicks, flagWrites, touched, deaths,
                 prevAtPoll, regFailed, prepFailed, uiStop, lastMsg, hist, preCall, crashed, lastAct, deathSnap, params, paramsAfterClear>>

\* lines 340-341
Brk ==
  /\ pc = "brk"
  /\ IF shutdown
       THEN /\ pc' = "finally"
            /\ loopExit' = "break"
       ELSE /\ pc' = "poll"
            /\ loopExit' = loopExit
  /\ UNCHANGED <<idx, env, handler, pending, started, started_prev, shutdown,
                 ignore, flags, reason, obs, prepared, exitStatus, tickLog,
                 ticks, entered, cleanups, stopLog, termRead, hostOps, sigPc,
                 sigTicks, flagWrites, touched, deaths,
                 prevAtPoll, regFailed, prepFailed, uiStop, lastMsg, hist, preCall, crashed, lastAct, deathSnap, params, paramsAfterClear>>

\* an exception raised by a call of manager_thread (Params, SubMaster,
\* ensure_running, PubMaster): nothing in the loop catches it
TickError ==
  /\ pc \in TryPcs \ {"brk"}
  /\ pending' = "Exception"
  /\ loopExit' = "Exception"
  /\ idx' = 0
  /\ pc' = "except"
  /\ UNCHANGED <<env, handler, started, started_prev, shutdown, ignore, flags,
                 reason, obs, prepared, exitStatus, tickLog, ticks, entered,
                 cleanups, stopLog, termRead, hostOps, sigPc, sigTicks,
                 flagWrites, touched, deaths,
                 prevAtPoll, regFailed, prepFailed, uiStop, lastMsg, hist, preCall, crashed, lastAct, deathSnap, params, paramsAfterClear>>

\* ---- main: except, finally, the terminal action ----
\* variant of Except with manager_cleanup after the try statement instead of
\* in a finally clause: the handler skips it
Except_NoFinally ==
  /\ pc = "except"
  /\ pending' = "none"
  /\ idx' = 1
  /\ pc' = "term"
  /\ UNCHANGED <<env, handler, started, started_prev, shutdown, ignore,
                 flags, reason, obs, prepared, exitStatus, tickLog, ticks,
                 entered, loopExit, cleanups, stopLog, termRead, hostOps,
                 sigPc, sigTicks, flagWrites, touched, deaths,
                 prevAtPoll, regFailed, prepFailed, uiStop, lastMsg, hist, preCall, crashed, lastAct, deathSnap, params, paramsAfterClear>>

\* lines 358-360
Except ==
  /\ pc = "except"
  /\ pending' = "none"
  /\ pc' = "finally"
  /\ UNCHANGED <<idx, env, handler, started, started_prev, shutdown, ignore,
                 flags, reason, obs, prepared, exitStatus, tickLog, ticks,
                 entered, loopExit, cleanups, stopLog, termRead, hostOps,
                 sigPc, sigTicks, flagWrites, touched, deaths,
                 prevAtPoll, regFailed, prepFailed, uiStop, lastMsg, hist, preCall, crashed, lastAct, deathSnap, params, paramsAfterClear>>

\* lines 361-362: the finally clause calls manager_cleanup
Finally ==
  /\ pc = "finally"
  /\ cleanups' = cleanups + 1
  /\ idx' = 1
  /\ pc' = "cleanup1"
  /\ hist' = << >>
  /\ preCall' = << >>
  /\ crashed' = {}
  /\ lastAct' = NoAct
  /\ deathSnap' = [ n \in Names |-> NoDeath ]
  /\ UNCHANGED <<env, handler, pending, started, started_prev, shutdown,
                 ignore, flags, reason, obs, prepared, exitStatus, tickLog,
                 ticks, entered, loopExit, stopLog, termRead, hostOps, sigPc,
                 sigTicks, flagWrites, touched, deaths,
                 prevAtPoll, regFailed, prepFailed, uiStop, lastMsg, params, paramsAfterClear>>

\* variant of manager_cleanup with a single loop that sends the signal to a
\* process and waits for its death before going on to the next process
Cleanup1_Interleaved ==
  /\ pc = "cleanup1"
  /\ LET n == Registry[idx].name IN
       /\ obs' = [obs EXCEPT ![n] = StopProc(StopProc(@, FALSE), TRUE)]
       /\ stopLog' = stopLog \o << Ev("stop_nonblocking", n), Ev("stop_blocking", n) >>
  /\ IF idx < N
       THEN /\ idx' = idx + 1
            /\ pc' = pc
       ELSE /\ idx' = 0
            /\ pc' = "cleanup_end"
  /\ UNCHANGED <<env, handler, pending, started, started_prev, shutdown,
                 ignore, flags, reason, prepared, exitStatus, tickLog, ticks,
                 entered, loopExit, cleanups, termRead, hostOps, sigPc,
                 sigTicks, flagWrites, touched, deaths,
                 prevAtPoll, regFailed, prepFailed, uiStop, preCall, lastMsg, hist, crashed, lastAct, deathSnap, params, paramsAfterClear>>

\* one iteration of the first loop of manager_cleanup: p.stop(block=False)
Cleanup1 ==
  /\ pc = "cleanup1"
  /\ LET n == Registry[idx].name IN
       /\ obs' = [obs EXCEPT ![n] = StopProc(@, FALSE)]
       /\ stopLog' = Append(stopLog, Ev("stop_nonblocking", n))
  /\ IF idx < N
       THEN /\ idx' = idx + 1
            /\ pc' = pc
       ELSE /\ idx' = 1
            /\ pc' = "cleanup2"
  /\ UNCHANGED <<env, handler, pending, started, started_prev, shutdown,
                 ignore, flags, reason, prepared, exitStatus, tickLog, ticks,
                 entered, loopExit, cleanups, termRead, hostOps, sigPc,
                 sigTicks, flagWrites, touched, deaths,
                 prevAtPoll, regFailed, prepFailed, uiStop, lastMsg, hist, preCall, crashed, lastAct, deathSnap, params, paramsAfterClear>>

\* one iteration of the second loop of manager_cleanup: p.stop(block=True)
Cleanup2 ==
  /\ pc = "cleanup2"
  /\ LET n == Registry[idx].name IN
       /\ obs' = [obs EXCEPT ![n] = StopProc(@, TRUE)]
       /\ stopLog' = Append(stopLog, Ev("stop_blocking", n))
  /\ IF idx < N
       THEN /\ idx' = idx + 1
            /\ pc' = pc
       ELSE /\ idx' = 0
            /\ pc' = "cleanup_end"
  /\ UNCHANGED <<env, handler, pending, started, started_prev, shutdown,
                 ignore, flags, reason, prepared, exitStatus, tickLog, ticks,
                 entered, loopExit, cleanups, termRead, hostOps, sigPc,
                 sigTicks, flagWrites, touched, deaths,
                 prevAtPoll, regFailed, prepFailed, uiStop, lastMsg, hist, preCall, crashed, lastAct, deathSnap, params, paramsAfterClear>>

\* manager_cleanup returns and the finally clause ends: a SystemExit in flight
\* leaves main, otherwise main goes on to line 364
CleanupEnd ==
  /\ pc = "cleanup_end"
  /\ IF pending = "SystemExit"
       THEN /\ pc' = "done"
            /\ exitStatus' = 1
            /\ idx' = idx
       ELSE /\ pc' = "term"
            /\ exitStatus' = exitStatus
            /\ idx' = 1
  /\ UNCHANGED <<env, handler, pending, started, started_prev, shutdown,
                 ignore, flags, reason, obs, prepared, tickLog, ticks, entered,
                 loopExit, cleanups, stopLog, termRead, hostOps, sigPc,
                 sigTicks, flagWrites, touched, deaths,
                 prevAtPoll, regFailed, prepFailed, uiStop, lastMsg, hist, preCall, crashed, lastAct, deathSnap, params, paramsAfterClear>>

\* variant of Term with `if` in place of `elif`: every flag is tested
Term_IfChain ==
  /\ pc = "term"
  /\ LET param == TermFlags[idx] IN
       /\ termRead' = Append(termRead, Ev(BoolStr(flags[param]), param))
       /\ hostOps' = IF flags[param] THEN Append(hostOps, HostOp(param)) ELSE hostOps
  /\ IF idx < Len(TermFlags)
       THEN /\ idx' = idx + 1
            /\ pc' = pc
       ELSE /\ idx' = 0
            /\ pc' = "ret"
  /\ UNCHANGED <<env, handler, pending, started, started_prev, shutdown,
                 ignore, flags, reason, obs, prepared, exitStatus, tickLog,
                 ticks, entered, loopExit, cleanups, stopLog, sigPc, sigTicks,
                 flagWrites, touched, deaths,
                 prevAtPoll, regFailed, prepFailed, uiStop, lastMsg, hist, preCall, crashed, lastAct, deathSnap, params, paramsAfterClear>>

\* one test of the if/elif chain of lines 365-373
Term ==
  /\ pc = "term"
  /\ LET param == TermFlags[idx] IN
       /\ termRead' = Append(termRead, Ev(BoolStr(flags[param]), param))
       /\ IF flags[param]
            THEN /\ hostOps' = Append(hostOps, HostOp(param))
                 /\ idx' = 0
                 /\ pc' = "ret"
            ELSE /\ hostOps' = hostOps
                 /\ IF idx < Len(TermFlags)
                      THEN /\ idx' = idx + 1
                           /\ pc' = pc
                      ELSE /\ idx' = 0
                           /\ pc' = "ret"
  /\ UNCHANGED <<env, handler, pending, started, started_prev, shutdown,
                 ignore, flags, reason, obs, prepared, exitStatus, tickLog,
                 ticks, entered, loopExit, cleanups, stopLog, sigPc, sigTicks,
                 flagWrites, touched, deaths,
                 prevAtPoll, regFailed, prepFailed, uiStop, lastMsg, hist, preCall, crashed, lastAct, deathSnap, params, paramsAfterClear>>

\* ---- the __main__ block ----
\* main has returned: line 401, sys.exit(0)
Ret ==
  /\ pc = "ret"
  /\ pc' = "done"
  /\ exitStatus' = 0
  /\ UNCHANGED <<idx, env, handler, pending, started, started_prev, shutdown,
                 ignore, flags, reason, obs, prepared, tickLog, ticks, entered,
                 loopExit, cleanups, stopLog, termRead, hostOps, sigPc,
                 sigTicks, flagWrites, touched, deaths,
                 prevAtPoll, regFailed, prepFailed, uiStop, lastMsg, hist, preCall, crashed, lastAct, deathSnap, params, paramsAfterClear>>

\* variant of Fatal without the final `raise`: control reaches sys.exit(0)
Fatal_NoReraise ==
  /\ pc = "fatal"
  /\ \E ok \in BOOLEAN :
       /\ obs' = IF ok THEN [obs EXCEPT !["ui"] = StopProc(@, TRUE)] ELSE obs
       /\ uiStop' = IF ok THEN "stopped" ELSE "raised"
  /\ pc' = "done"
  /\ exitStatus' = 0
  /\ UNCHANGED <<idx, env, handler, pending, started, started_prev, shutdown,
                 ignore, flags, reason, prepared, tickLog, ticks, entered,
                 loopExit, cleanups, stopLog, termRead, hostOps, sigPc,
                 sigTicks, flagWrites, touched, deaths,
                 prevAtPoll, regFailed, prepFailed, lastMsg, hist, preCall, crashed, lastAct, deathSnap, params, paramsAfterClear>>

\* variant of Fatal without the inner try/except: an exception of the stop
\* leaves the handler in place of the original one
Fatal_StopUnguarded ==
  /\ pc = "fatal"
  /\ \E ok \in BOOLEAN :
       /\ obs' = IF ok THEN [obs EXCEPT !["ui"] = StopProc(@, TRUE)] ELSE obs
       /\ uiStop' = IF ok THEN "stopped" ELSE "raised"
       /\ pending' = IF ok THEN pending ELSE "StopException"
  /\ pc' = "done"
  /\ exitStatus' = 1
  /\ UNCHANGED <<idx, env, handler, started, started_prev, shutdown,
                 ignore, flags, reason, prepared, tickLog, ticks, entered,
                 loopExit, cleanups, stopLog, termRead, hostOps, sigPc,
                 sigTicks, flagWrites, touched, deaths,
                 prevAtPoll, regFailed, prepFailed, lastMsg, hist, preCall, crashed, lastAct, deathSnap, params, paramsAfterClear>>

\* lines 383-398: `except Exception` of the __main__ block; the stop of 'ui'
\* may itself raise, which is swallowed; then `raise` re-raises the exception
\* that left main, and the program ends with status 1
Fatal ==
  /\ pc = "fatal"
  /\ \E ok \in BOOLEAN :
       /\ obs' = IF ok THEN [obs EXCEPT !["ui"] = StopProc(@, TRUE)] ELSE obs
       /\ uiStop' = IF ok THEN "stopped" ELSE "raised"
  /\ pc' = "done"
  /\ exitStatus' = 1
  /\ UNCHANGED <<idx, env, handler, pending, started, started_prev, shutdown,
                 ignore, flags, reason, prepared, tickLog, ticks, entered,
                 loopExit, cleanups, stopLog, termRead, hostOps, sigPc,
                 sigTicks, flagWrites, touched, deaths,
                 prevAtPoll, regFailed, prepFailed, lastMsg, hist, preCall, crashed, lastAct, deathSnap, params, paramsAfterClear>>

\* ---- the environment ----
\* SIGTERM is delivered.  Before line 354 the default disposition ends the
\* program at once; afterwards the handler raises SystemExit(1) at the
\* program's position.
Sigterm ==
  /\ pc # "done"
  /\ Len(sigPc) < MaxSignals
  /\ sigPc' = Append(sigPc, pc)
  /\ IF ~handler
       THEN /\ pc' = "done"
            /\ exitStatus' = 143
            /\ UNCHANGED <<pending, loopExit, sigTicks>>
       ELSE /\ pc' = SystemExitTarget(pc)
            /\ pending' = "SystemExit"
            /\ exitStatus' = IF SystemExitTarget(pc) = "done" THEN 1 ELSE exitStatus
            /\ loopExit' = IF pc \in TryPcs /\ loopExit = "" THEN "SystemExit" ELSE loopExit
            /\ sigTicks' = IF pc \in TryPcs /\ sigTicks = -1 THEN ticks ELSE sigTicks
  /\ idx' = 0
  /\ UNCHANGED <<env, handler, started, started_prev, shutdown, ignore, flags,
                 reason, obs, prepared, tickLog, ticks, entered, cleanups,
                 stopLog, termRead, hostOps, flagWrites, touched, deaths,
                 prevAtPoll, regFailed, prepFailed, uiStop, lastMsg, hist, preCall, crashed, lastAct, deathSnap, params, paramsAfterClear>>

\* an external collaborator (UI, remote command) writes a Shutdown Intent flag
SetFlag ==
  /\ pc # "done"
  /\ flagWrites < MaxFlagWrites
  /\ \E f \in FlagNames : flags' = [flags EXCEPT ![f] = ~@]
  /\ flagWrites' = flagWrites + 1
  /\ touched' = TRUE
  /\ UNCHANGED <<prog, env, obs, sigPc, sigTicks, deaths, crashed, deathSnap>>

\* a running managed process dies unexpectedly
ProcDies ==
  /\ pc # "done"
  /\ deaths < MaxDeaths
  /\ \E n \in Names :
       /\ obs[n] = "RUNNING"
       /\ obs' = [obs EXCEPT ![n] = "STOPPED"]
       /\ crashed' = IF pc \in TryPcs THEN crashed \cup {n} ELSE crashed
       /\ deathSnap' = IF pc \in TryPcs
            THEN [deathSnap EXCEPT ![n] =
                   [afterEnsure |-> pc = "send",
                    wanted |-> \E i \in 1..N : Registry[i].name = n /\ Desired(i, started, ignore),
                    seen |-> "pending"]]
            ELSE deathSnap
  /\ deaths' = deaths + 1
  /\ UNCHANGED <<prog, env, flags, sigPc, sigTicks, flagWrites, touched>>

\* a process that was sent its stop signal exits
ProcExits ==
  /\ pc # "done"
  /\ \E n \in Names :
       /\ obs[n] = "STOPPING"
       /\ obs' = [obs EXCEPT ![n] = "STOPPED"]
  /\ UNCHANGED <<prog, env, flags, sigPc, sigTicks, flagWrites, touched, deaths, crashed, deathSnap>>

Next ==
  \/ Boot
  \/ Defaults
  \/ ManagerInit
  \/ Prepare
  \/ InitEnd
  \/ SigInstall
  \/ TryEnter
  \/ ThreadStart
  \/ Poll
  \/ Edge
  \/ Ensure
  \/ Send
  \/ ReadFlag
  \/ Brk
  \/ TickError
  \/ Except
  \/ Finally
  \/ Cleanup1
  \/ Cleanup2
  \/ CleanupEnd
  \/ Term
  \/ Ret
  \/ Fatal
  \/ Sigterm
  \/ SetFlag
  \/ ProcDies
  \/ ProcExits

Spec == Init /\ [][Next]_vars

\* ---- runs of the supervisor loop without SIGTERM and without a shutdown
\* request, for every ignore list the environment can produce ----
LoopEnvValues ==
  [ PREPAREONLY : {FALSE}, NOBOARD : BOOLEAN,
    BLOCK : { {}, {"controlsd"}, {"ui"} }, DongleId : {"dongle", ""},
    PC : {FALSE}, FrogsGoMoo : {FALSE}, Cleared : { {} } ]

InitLoop == InitWith(LoopEnvValues, {Fresh})

NextLoop ==
  \/ Boot
  \/ Defaults
  \/ ManagerInit
  \/ Prepare
  \/ InitEnd
  \/ SigInstall
  \/ TryEnter
  \/ ThreadStart
  \/ PollLoop
  \/ Edge
  \/ Ensure
  \/ Send
  \/ ReadFlag
  \/ Brk
  \/ TickError
  \/ Except
  \/ Finally
  \/ Cleanup1
  \/ Cleanup2
  \/ CleanupEnd
  \/ Term
  \/ Ret
  \/ Fatal
  \/ ProcDies
  \/ ProcExits

SpecLoop == InitLoop /\ [][NextLoop]_vars

\* ---- manager_init on any persisted store ----
\* the values a persisted key may hold: empty, and two non-empty ones
StoredValues == { "", "1", "7" }

\* every store over ParamKeys
StoreValues == UNION { [ S -> StoredValues ] : S \in SUBSET ParamKeys }

ParamsEnvValues ==
  [ PREPAREONLY : {FALSE}, NOBOARD : {FALSE}, BLOCK : { {} }, DongleId : {"dongle"},
    PC : BOOLEAN, FrogsGoMoo : BOOLEAN,
    Cleared : { {}, {"GsmMetered"}, {"LanguageSetting", "RecordFrontLock"} } ]

InitParams == InitWith(ParamsEnvValues, StoreValues)

NextParams ==
  \/ Boot
  \/ Defaults
  \/ ManagerInit

SpecParams == InitParams /\ [][NextParams]_vars

(***************************************************************************)
(* Properties                                                              *)
(***************************************************************************)
\* number of occurrences of event e in log
Count(log, e) == Cardinality({ i \in DOMAIN log : log[i] = e })

\* positions of the calls named op in log
At(log, op) == { i \in DOMAIN log : log[i].op = op }

ClearOnroad == Ev("clear_all", "CLEAR_ON_ONROAD_TRANSITION")
ClearOffroad == Ev("clear_all", "CLEAR_ON_OFFROAD_TRANSITION")

\* positions of a tick after lines 309-318 have run
AfterEdgePcs == { "ensure", "send", "flags", "brk" }

\* C1: in a tick with a rising edge (started and not started_prev) exactly one
\* clear_all(CLEAR_ON_ONROAD_TRANSITION) and no clear_all(CLEAR_ON_OFFROAD_TRANSITION)
\* is issued; in a tick with a falling edge exactly one offroad clear and no
\* onroad clear; in a tick without an edge neither category is cleared.
C1_EdgeTriggeredClears ==
  pc \in AfterEdgePcs =>
    LET on == Count(tickLog, ClearOnroad)
        off == Count(tickLog, ClearOffroad) IN
      /\ (started /\ ~prevAtPoll) => (on = 1 /\ off = 0)
      /\ (~started /\ prevAtPoll) => (on = 0 /\ off = 1)
      /\ (started = prevAtPoll) => (on = 0 /\ off = 0)

\* a tick with a falling edge has run to its end with its one offroad clear
C1_Witness ==
  /\ pc = "brk"
  /\ ~started
  /\ prevAtPoll
  /\ Count(tickLog, ClearOffroad) = 1

\* C2 as stated: manager_cleanup runs exactly once on every execution path of
\* main (no signal involved).
C2_CleanupOnEveryPath ==
  (pc = "done" /\ sigPc = << >>) => cleanups = 1

\* C2 as amended: manager_cleanup is never invoked more than once; it is
\* invoked exactly once on every path of main on which manager_thread was
\* called, whether the loop ended by break, by an uncaught Exception raised in
\* a tick or by a SIGTERM delivered inside the try/except blocks; it is not
\* invoked on the paths that leave main before the try block (manager_init
\* raises, PREPAREONLY is set).
C2_CleanupOncePerLoopRun ==
  /\ cleanups <= 1
  /\ ~entered => cleanups = 0
  /\ ( /\ pc = "done"
       /\ entered
       /\ \A i \in DOMAIN sigPc : sigPc[i] \in TryPcs \cup {"except"} )
     => cleanups = 1

\* the loop ended by an uncaught Exception of a tick and cleanup has run once
C2_Witness ==
  /\ pc = "done"
  /\ loopExit = "Exception"
  /\ ticks >= 1
  /\ sigPc = << >>
  /\ cleanups = 1

\* flags that read true / false in the flag loop of the current tick
ReadTrue == { tickLog[i].arg : i \in At(tickLog, "get_bool_true") }
ReadFalse == { tickLog[i].arg : i \in At(tickLog, "get_bool_false") }

\* C3: at the end of every tick the loop reads DoUninstall, DoShutdown and
\* DoReboot afresh; if at least one reads true, LastManagerExitReason is
\* written naming a flag that read true and the loop is left (no further tick
\* begins); if none reads true, LastManagerExitReason is not written in that
\* tick and the loop goes on to the next tick.
C3_ShutdownIntentEndsLoop ==
  /\ pc = "brk" =>
       /\ ReadTrue \cup ReadFalse = FlagNames
       /\ Cardinality(At(tickLog, "get_bool_true")) +
          Cardinality(At(tickLog, "get_bool_false")) = Cardinality(FlagNames)
       /\ shutdown <=> (ReadTrue # {})
       /\ shutdown => /\ reason \in ReadTrue
                      /\ At(tickLog, "put_reason") # {}
       /\ ~shutdown => At(tickLog, "put_reason") = {}
  /\ (pc = "poll" /\ ticks >= 1) =>
       /\ ReadTrue = {}
       /\ At(tickLog, "put_reason") = {}
       /\ loopExit = ""
  /\ loopExit = "break" =>
       /\ ReadTrue # {}
       /\ reason \in ReadTrue
       /\ pc \notin TryPcs

\* the loop was left in its second tick on DoShutdown, the only flag set
C3_Witness ==
  /\ pc = "finally"
  /\ loopExit = "break"
  /\ ticks = 2
  /\ ReadTrue = {"DoShutdown"}
  /\ reason = "DoShutdown"

\* every managed process was issued a stop by manager_cleanup
AllStopped ==
  \A n \in Names : Ev("stop_nonblocking", n) \in { stopLog[i] : i \in DOMAIN stopLog }
                   \/ Ev("stop_blocking", n) \in { stopLog[i] : i \in DOMAIN stopLog }

\* manager_cleanup has run both of its loops to the end
CleanupFinished ==
  /\ cleanups = 1
  /\ stopLog = [ i \in 1..(2 * N) |->
                   IF i <= N THEN Ev("stop_nonblocking", Registry[i].name)
                   ELSE Ev("stop_blocking", Registry[i - N].name) ]
  /\ pc \in TermPcs \cup {"done"}

\* C4 as stated: when the loop exits on a Shutdown Intent and the flags are
\* not written from the loop's reading of them on, every managed process is
\* issued a stop and the host operation performed after CLEANUP is the one of
\* the flag named in LastManagerExitReason.
C4_ReasonNamesTerminalAction ==
  (pc = "done" /\ loopExit = "break" /\ ~touched /\ exitStatus = 0) =>
    /\ AllStopped
    /\ hostOps = << HostOp(reason) >>

\* C5: after CLEANUP has completed main reads the Shutdown Intent flags one
\* final time and performs the host operation of the flag it finds set: never
\* more than one operation, never an operation (or a read) before CLEANUP has
\* finished, and no operation when every flag reads false.
C5_TerminalAction ==
  /\ Len(hostOps) <= 1
  /\ termRead # << >> => CleanupFinished
  /\ hostOps # << >> => CleanupFinished
  /\ \A i, j \in DOMAIN termRead : termRead[i].arg = termRead[j].arg => i = j
  /\ \A i \in DOMAIN termRead :
       termRead[i].op = "True" =>
         /\ i = Len(termRead)
         /\ hostOps = << HostOp(termRead[i].arg) >>
  /\ (\A i \in DOMAIN termRead : termRead[i].op = "False") => hostOps = << >>
  /\ (pc = "ret" /\ hostOps = << >>) =>
       { termRead[i].arg : i \in DOMAIN termRead } = FlagNames

\* main is about to return having rebooted: DoUninstall read false first
C5_Witness ==
  /\ pc = "ret"
  /\ hostOps = << "reboot" >>
  /\ termRead = << Ev("False", "DoUninstall"), Ev("True", "DoReboot") >>
  /\ flags["DoShutdown"]

\* C6: within a tick every category clear comes before the ensure_running
\* call and the ensure_running call comes before the managerState send; no
\* health message is sent in a tick before ensure_running has been called.
C6_TickOrder ==
  ticks >= 1 =>
    /\ \A i \in At(tickLog, "clear_all") :
         /\ \A j \in At(tickLog, "ensure_running") : i < j
         /\ \A j \in At(tickLog, "send") : i < j
    /\ \A j \in At(tickLog, "send") :
         \E i \in At(tickLog, "ensure_running") : i < j
    /\ Cardinality(At(tickLog, "ensure_running")) <= 1
    /\ Cardinality(At(tickLog, "send")) <= 1
    /\ pc \in {"send", "flags", "brk"} => At(tickLog, "ensure_running") # {}
    /\ pc \in {"flags", "brk"} => At(tickLog, "send") # {}

\* a tick with a rising edge has cleared, reconciled and sent, in that order
C6_Witness ==
  /\ pc = "flags"
  /\ tickLog = << ClearOnroad, Ev("write_onroad_params", "True"),
                  Ev("ensure_running", "True"), Ev("send", "managerState") >>

\* C7 as stated: wherever SIGTERM is delivered, the program proceeds to
\* CLEANUP and a stop is issued to every managed process.
C7_SigtermAlwaysCleansUp ==
  (pc = "done" /\ sigPc # << >>) => (cleanups = 1 /\ AllStopped)

\* C7 as amended: a SIGTERM delivered while manager_thread runs (handler
\* installed, try block entered) raises SystemExit there: no further tick
\* begins and control goes to CLEANUP, which issues both stops to every
\* managed process provided no second SIGTERM interrupts it, and the program
\* then ends with status 1.  A SIGTERM delivered before the handler is
\* installed (INIT) ends the program at once without CLEANUP.
C7_SigtermInLoopCleansUp ==
  /\ sigTicks # -1 =>
       /\ ticks = sigTicks
       /\ pc \in {"finally", "done"} \cup CleanupPcs
  /\ (pc = "done" /\ sigTicks # -1 /\ Len(sigPc) = 1) =>
       /\ cleanups = 1
       /\ AllStopped
       /\ Len(stopLog) = 2 * N
       /\ exitStatus = 1
  /\ (pc = "done" /\ sigPc # << >> /\ sigPc[1] \in InitPcs \cup {"sig_install", "fatal"}) =>
       /\ cleanups = 0
       /\ stopLog = << >>
       /\ exitStatus = 143

\* SIGTERM arrived during the second tick's reconciliation; cleanup has run
C7_Witness ==
  /\ pc = "done"
  /\ sigPc = << "ensure" >>
  /\ sigTicks = 2
  /\ cleanups = 1
  /\ AllStopped

\* manager_init raised
InitError == regFailed \/ prepFailed # {}

\* C8 as stated: status 0 when the program ends because of a shutdown
\* request, non-zero when it ends because of an uncaught error in INIT or in
\* the supervisor loop (runs without SIGTERM).
C8_LoopErrorExitsNonZero ==
  (pc = "done" /\ sigPc = << >>) =>
    /\ loopExit = "break" => exitStatus = 0
    /\ (loopExit = "Exception" \/ InitError) => exitStatus # 0

\* C8 as amended: in a run without SIGTERM the program exits with status 0
\* when it ends because of a shutdown request and also when the supervisor
\* loop ends by an uncaught Exception (main catches it, runs cleanup and the
\* terminal action, and line 401 exits 0); it exits with a non-zero status
\* when manager_init raises.
C8_ExitStatus ==
  pc = "done" =>
    /\ (sigPc = << >> /\ loopExit = "break") => exitStatus = 0
    /\ (sigPc = << >> /\ loopExit = "Exception") => (exitStatus = 0 /\ cleanups = 1)
    /\ InitError => exitStatus # 0
    /\ (sigPc = << >> /\ InitError) => exitStatus = 1

\* a tick raised, cleanup ran, and the program ended with status 0
C8_Witness ==
  /\ pc = "done"
  /\ sigPc = << >>
  /\ loopExit = "Exception"
  /\ cleanups = 1
  /\ exitStatus = 0

\* C9 as stated: a prepare() that fails does not abort startup: the other
\* processes are still pre-warmed, manager_init completes and (unless
\* PREPAREONLY) the supervisor loop is entered.
C9_PrepareFailureTolerated ==
  (pc = "done" /\ prepFailed # {} /\ sigPc = << >>) =>
    /\ prepared \cup prepFailed = Names
    /\ ~env.PREPAREONLY => entered

\* C10: when register() returns no dongle id manager_init raises: the
\* supervisor loop is never entered, ensure_running is never called, and no
\* managed process is pre-warmed or started.
C10_RegistrationFailureAborts ==
  regFailed =>
    /\ pc \in {"fatal", "done"}
    /\ pending = "Exception"
    /\ ~entered
    /\ ticks = 0
    /\ tickLog = << >>
    /\ prepared = {}
    /\ prepFailed = {}
    /\ \A n \in Names : obs[n] = "STOPPED"
    /\ (pc = "done" /\ sigPc = << >>) => exitStatus = 1

\* registration failed and the program has ended through the __main__ handler
C10_Witness ==
  /\ pc = "done"
  /\ regFailed
  /\ sigPc = << >>
  /\ exitStatus = 1

\* C11: on an uncaught error of INIT the __main__ handler attempts a stop of
\* the 'ui' process before re-raising; a failure of that stop is swallowed and
\* does not replace the original error, which is re-raised, so the program
\* ends with a non-zero status.
C11_FatalStartup ==
  /\ uiStop # "" => (InitError /\ pc = "done")
  /\ (pc = "done" /\ InitError /\ sigPc = << >>) =>
       /\ uiStop \in {"stopped", "raised"}
       /\ pending = "Exception"
       /\ exitStatus = 1
       /\ cleanups = 0

\* registration failed, the stop of 'ui' raised too, and the program still
\* ended with the original error
C11_Witness ==
  /\ pc = "done"
  /\ regFailed
  /\ uiStop = "raised"
  /\ pending = "Exception"
  /\ exitStatus = 1

\* the stop() calls of a complete manager_cleanup
FullStopLog ==
  [ i \in 1..(2 * N) |->
      IF i <= N THEN Ev("stop_nonblocking", Registry[i].name)
      ELSE Ev("stop_blocking", Registry[i - N].name) ]

\* C12: manager_cleanup issues a non-blocking stop to every process of the
\* registry, in registry order, and only then a blocking stop to every
\* process, in registry order; when it returns every managed process is dead.
C12_CleanupTwoPasses ==
  /\ Len(stopLog) <= 2 * N
  /\ \A i \in DOMAIN stopLog : stopLog[i] = FullStopLog[i]
  /\ pc = "cleanup1" => Len(stopLog) = idx - 1
  /\ pc = "cleanup2" => Len(stopLog) = N + idx - 1
  /\ pc \in {"cleanup_end"} \cup TermPcs =>
       /\ stopLog = FullStopLog
       /\ \A n \in Names : obs[n] = "STOPPED"

\* manager_cleanup is about to return after a loop that ran onroad
C12_Witness ==
  /\ pc = "cleanup_end"
  /\ started
  /\ loopExit = "break"
  /\ stopLog = FullStopLog
  /\ \A n \in Names : obs[n] = "STOPPED"

\* C13: every tick that runs to completion emits exactly one managerState
\* message, with one entry for every process of the registry (ignored and
\* never-started ones included), in registry order; so does the tick in which
\* a Shutdown Intent is observed.
C13_OneHealthMessagePerTick ==
  /\ (ticks >= 1 /\ pc \in {"edge", "ensure", "send"}) =>
       (lastMsg = << >> /\ At(tickLog, "send") = {})
  /\ (pc \in {"flags", "brk"} \/ (pc = "poll" /\ ticks >= 1) \/ loopExit = "break") =>
       /\ Cardinality(At(tickLog, "send")) = 1
       /\ Len(lastMsg) = N
       /\ \A i \in 1..N : lastMsg[i].name = Registry[i].name

\* the tick that observed DoReboot has sent its message; controlsd, never
\* started, is listed as not running
C13_Witness ==
  /\ pc = "finally"
  /\ loopExit = "break"
  /\ reason = "DoReboot"
  /\ lastMsg = << [name |-> "ui", running |-> TRUE],
                  [name |-> "controlsd", running |-> FALSE] >>

\* C14: in every tick ensure_running is given the started value polled in
\* that tick, so that with an empty ignore list an ONROAD_ONLY process is
\* wanted running exactly in the ticks where started is true and an ALWAYS
\* process in every tick.
C14_ReconcilerGetsPolledStarted ==
  /\ \A k \in DOMAIN hist :
       /\ hist[k].arg = hist[k].polled
       /\ ignore = {} =>
            \A i \in 1..N :
              /\ Registry[i].cond = "ALWAYS" => Registry[i].name \in hist[k].want
              /\ Registry[i].cond = "ONROAD_ONLY" =>
                   (Registry[i].name \in hist[k].want <=> hist[k].polled)
  /\ pc \in {"send", "flags", "brk"} =>
       /\ Len(hist) = ticks
       /\ hist[ticks].polled = started
       /\ Ev("ensure_running", BoolStr(started)) \in { tickLog[i] : i \in DOMAIN tickLog }

\* started was polled as false, true, true, false: controlsd (ONROAD_ONLY) was
\* wanted stopped, running, running, stopped and ui (ALWAYS) running throughout
C14_Witness ==
  /\ ignore = {}
  /\ Len(hist) = 4
  /\ [ k \in 1..4 |-> hist[k].polled ] = << FALSE, TRUE, TRUE, FALSE >>
  /\ [ k \in 1..4 |-> hist[k].want ] =
       << {"ui"}, {"ui", "controlsd"}, {"ui", "controlsd"}, {"ui"} >>

\* every ensure_running call of the run so far, the one before the loop first
Calls == preCall \o hist

\* C15: a process of the ignore list is wanted stopped in every tick whatever
\* the operating mode, so it is never started; the ignore list is assembled
\* once before the loop and every ensure_running call of the run is given the
\* same one.
C15_IgnoreSet ==
  /\ \A k \in DOMAIN Calls :
       /\ Calls[k].not_run = ignore
       /\ Calls[k].want \cap ignore = {}
       /\ env.BLOCK \subseteq Calls[k].not_run
       /\ env.NOBOARD => "pandad" \in Calls[k].not_run
       /\ env.DongleId = "" => {"manage_athenad", "uploader"} \subseteq Calls[k].not_run
  /\ \A n \in Names : (n \in env.BLOCK \/ n \in ignore) => obs[n] = "STOPPED"
  /\ preCall # << >> => ignore = preCall[1].not_run

\* BLOCK names controlsd: in a tick with started true it is still wanted
\* stopped and has not been started, while ui runs
C15_Witness ==
  /\ pc = "send"
  /\ started
  /\ ignore = {"controlsd"}
  /\ hist[Len(hist)].arg
  /\ hist[Len(hist)].want = {"ui"}
  /\ obs["controlsd"] = "STOPPED"
  /\ obs["ui"] = "RUNNING"

\* C16: ensure_running is idempotent: a second call on the same registry,
\* started value and ignore list issues no start and no stop; so a tick that
\* polls the same started value as the call before it, with no process death
\* in between, issues no start and no stop.
C16_ReconcilerIdempotent ==
  /\ \A st \in BOOLEAN, nr \in {ignore, {}} :
       Acts(EnsureRunning(obs, st, nr), st, nr) = {}
  /\ LET k == Len(Calls) IN
       ( /\ k >= 2
         /\ Calls[k].polled = Calls[k-1].polled
         /\ Calls[k].not_run = Calls[k-1].not_run
         /\ lastAct.crashed = {} )
       => lastAct.acts = {}

\* the two latest ticks polled started = TRUE with no death between them,
\* after a tick that polled FALSE: the first started controlsd, the second
\* issued nothing
C16_Witness ==
  /\ Len(hist) >= 3
  /\ LET k == Len(hist) IN
       /\ hist[k].polled /\ hist[k-1].polled /\ ~hist[k-2].polled
       /\ lastAct.crashed = {}
       /\ lastAct.acts = {}
       /\ obs["controlsd"] = "RUNNING"
       /\ pc = "send"

\* the latest ensure_running call started afresh each process that had died
\* since the call before it and that it wanted running
RestartedByNextCall ==
  \A n \in lastAct.crashed :
    n \in Calls[Len(Calls)].want => [op |-> "start", arg |-> n] \in lastAct.acts

\* the death of a process is no step of the program: the loop is where it was
DeathLeavesLoopAlone ==
  deaths' # deaths => UNCHANGED <<pc, pending, loopExit, ticks, exitStatus, params, paramsAfterClear>>

C18_ParamsWrittenOnEveryEdge ==
  pc \in AfterEdgePcs =>
    LET w == At(tickLog, "write_onroad_params") IN
      /\ started # prevAtPoll =>
           /\ Cardinality(w) = 1
           /\ \A i \in w :
                /\ tickLog[i].arg = BoolStr(started)
                /\ \A j \in At(tickLog, "ensure_running") : i < j
      /\ started = prevAtPoll => w = {}

\* a tick with a falling edge has written the offroad parameters and then
\* called ensure_running
C18_Witness ==
  /\ pc = "send"
  /\ ~started
  /\ prevAtPoll
  /\ tickLog = << ClearOffroad, Ev("write_onroad_params", "False"),
                  Ev("ensure_running", "False") >>

\* the processes of the registry that run only onroad
OnroadOnly == { Registry[i].name : i \in { j \in 1..N : Registry[j].cond = "ONROAD_ONLY" } }

\* C19: before the first poll manager_thread writes the offroad parameters,
\* calls ensure_running with started = False and sets started_prev to False.
\* So no ONROAD_ONLY process is started before started = True has been
\* polled; a first tick that polls True is a rising edge (onroad clear and
\* write of the onroad parameters); a first tick that polls False clears
\* nothing and writes nothing.
C19_OffroadBeforeFirstPoll ==
  /\ (pc = "poll" /\ ticks = 0) =>
       /\ tickLog = << Ev("write_onroad_params", "False"), Ev("ensure_running", "False") >>
       /\ preCall = << CallRecord(FALSE, FALSE, ignore) >>
       /\ ~started_prev
  /\ (cleanups = 0 /\ \A k \in DOMAIN hist : ~hist[k].polled) =>
       \A n \in OnroadOnly : obs[n] = "STOPPED"
  /\ (ticks = 1 /\ pc \in AfterEdgePcs) =>
       /\ ~prevAtPoll
       /\ started =>
            /\ Len(tickLog) >= 2
            /\ SubSeq(tickLog, 1, 2) = << ClearOnroad, Ev("write_onroad_params", "True") >>
       /\ ~started =>
            /\ At(tickLog, "clear_all") = {}
            /\ At(tickLog, "write_onroad_params") = {}

\* the first tick polled started = True: it cleared the onroad category, wrote
\* the onroad parameters and only then was controlsd started
C19_Witness ==
  /\ ticks = 1
  /\ pc = "send"
  /\ started
  /\ preCall # << >>
  /\ tickLog = << ClearOnroad, Ev("write_onroad_params", "True"),
                  Ev("ensure_running", "True") >>
  /\ obs["controlsd"] = "RUNNING"
  /\ lastAct.acts = { [op |-> "start", arg |-> "controlsd"] }

\* the keys of the default table
TableKeys == { DefaultParams(env)[i][1] : i \in DOMAIN DefaultParams(env) }

\* C20: the default pass of manager_init fills absent keys only: a key of the
\* default table that holds a value after the startup clears holds the same
\* value after the pass, and one that is absent holds the table's default.
C20_DefaultsFillOnlyAbsent ==
  pc \in {"init", "prepare", "init_end", "fatal"} =>
    /\ \A i \in DOMAIN DefaultParams(env) :
         LET k == DefaultParams(env)[i][1]
             v == DefaultParams(env)[i][2] IN
           /\ k \in DOMAIN params
           /\ k \in DOMAIN paramsAfterClear => params[k] = paramsAfterClear[k]
           /\ k \notin DOMAIN paramsAfterClear => params[k] = v
    /\ \A k \in ParamKeys \ (TableKeys \cup {"RecordFront"}) :
         /\ k \in DOMAIN params <=> k \in DOMAIN paramsAfterClear
         /\ k \in DOMAIN params => params[k] = paramsAfterClear[k]

\* after the clears GsmMetered held an empty value and LanguageSetting was
\* absent: the pass kept the one and filled the other
C20_Witness ==
  /\ pc = "init"
  /\ "GsmMetered" \in DOMAIN paramsAfterClear
  /\ paramsAfterClear["GsmMetered"] = ""
  /\ "LanguageSetting" \notin DOMAIN paramsAfterClear
  /\ params["GsmMetered"] = ""
  /\ params["LanguageSetting"] = "main_en"

====
